---- MODULE Spec2Model ----
(***************************************************************************)
(* A model of ncompare.py: the comparison of two NetCDF files.             *)
(*                                                                         *)
(* Strings are sequences of one-character tokens (<<"v","1">> is "v1",     *)
(* <<>> is "").  The token "ESC" stands for the character \033 that starts *)
(* every ANSI escape sequence; a whole message literal of a print() call   *)
(* that is never measured or compared is kept as one token.                *)
(***************************************************************************)
EXTENDS Integers, Sequences, FiniteSets, TLC

VARIABLES
  Fore,            \* colorama.Fore.__dict__ (process-wide)
  Style,           \* colorama.Style.__dict__ (process-wide)
  nc_a, nc_b,      \* the two files on disk (NoFile: the path does not exist)
  args,            \* the arguments of the current compare() call
  pc,              \* position in compare()
  out,             \* the lines printed by the last step
  phases,          \* the phases entered so far in the current call
  handles,         \* dataset handles: held by a local / opened and dropped unclosed
  ret,             \* what compare() returned
  exc,             \* the exception last raised in the current call
  loop,            \* locals of compare_multiple_random_values
  lookups,         \* the _var_properties calls of the last step
  calls,           \* number of compare() calls started in this process
  fn               \* the call record of the pure-function specifications

vars == <<Fore, Style, nc_a, nc_b, args, pc, out, phases, handles, ret, exc,
          loop, lookups, calls, fn>>

(***************************************************************************)
(* Python values that may be of more than one type carry their type.       *)
(***************************************************************************)
None == [type |-> "NoneType"]
PyStr(s) == [type |-> "str", value |-> s]
PyInt(n) == [type |-> "int", value |-> n]
PyBool(b) == [type |-> "bool", value |-> b]
PyFloat(repr, zero) == [type |-> "float", value |-> repr, zero |-> zero]

\* bool(v): None, "", 0, 0.0 and False are falsy
Truthy(v) ==
  CASE v.type = "NoneType" -> FALSE
    [] v.type = "str"      -> v.value # <<>>
    [] v.type = "int"      -> v.value # 0
    [] v.type = "bool"     -> v.value
    [] v.type = "float"    -> ~v.zero

(***************************************************************************)
(* Strings                                                                 *)
(***************************************************************************)
ESC == "ESC"

\* Code points of the characters the model's strings use (Python compares
\* strings by code point).
ord(c) ==
  CASE c = ESC -> 27
    [] c = " " -> 32
    [] c = "#" -> 35
    [] c = "-" -> 45
    [] c = "0" -> 48
    [] c = "1" -> 49
    [] c = "2" -> 50
    [] c = "A" -> 65
    [] c = "B" -> 66
    [] c = "F" -> 70
    [] c = "a" -> 97
    [] c = "b" -> 98
    [] c = "c" -> 99
    [] c = "e" -> 101
    [] c = "g" -> 103
    [] c = "i" -> 105
    [] c = "l" -> 108
    [] c = "v" -> 118
    [] c = "x" -> 120
    [] c = "y" -> 121
    [] c = "z" -> 122
    [] OTHER -> 127

Min(a, b) == IF a < b THEN a ELSE b

\* s < t for Python strings: lexicographic by code point, a proper prefix first.
StrLt(s, t) ==
  \E k \in 1..(Min(Len(s), Len(t)) + 1) :
     /\ \A j \in 1..(k - 1) : s[j] = t[j]
     /\ \/ k > Len(s) /\ k <= Len(t)
        \/ k <= Len(s) /\ k <= Len(t) /\ ord(s[k]) < ord(t[k])

\* set(seq)
set(seq) == {seq[i] : i \in 1..Len(seq)}

\* sorted(S) for a collection without duplicates (a set, the keys of a dict).
RECURSIVE sorted_set(_)
sorted_set(S) ==
  IF S = {} THEN <<>>
  ELSE LET m == CHOOSE x \in S : \A y \in S \ {x} : StrLt(x, y)
       IN  <<m>> \o sorted_set(S \ {m})

\* sorted(seq) for a list: duplicates are kept.
RECURSIVE sorted_list(_)
sorted_list(seq) ==
  IF seq = <<>> THEN <<>>
  ELSE LET i == CHOOSE k \in 1..Len(seq) :
                  \A j \in 1..Len(seq) : ~StrLt(seq[j], seq[k])
           rest == [j \in 1..(Len(seq) - 1) |-> IF j < i THEN seq[j] ELSE seq[j + 1]]
       IN  <<seq[i]>> \o sorted_list(rest)

IsSpace(c) == c = " "

\* str.strip()
RECURSIVE lstrip(_)
lstrip(s) == IF s # <<>> /\ IsSpace(Head(s)) THEN lstrip(Tail(s)) ELSE s

RECURSIVE rstrip(_)
rstrip(s) ==
  IF s # <<>> /\ IsSpace(s[Len(s)]) THEN rstrip(SubSeq(s, 1, Len(s) - 1)) ELSE s

strip(s) == rstrip(lstrip(s))

\* s[:n]
Take(s, n) == SubSeq(s, 1, Min(n, Len(s)))

\* format(s, fill + ">" + width): right-justify s in a field of the width
RJust(s, width, fill) ==
  IF Len(s) >= width THEN s ELSE [i \in 1..(width - Len(s)) |-> fill] \o s

Digit(d) == <<"0", "1", "2", "3", "4", "5", "6", "7", "8", "9">>[d + 1]

\* str(n) for a non-negative int
RECURSIVE StrInt(_)
StrInt(n) == IF n < 10 THEN <<Digit(n)>> ELSE StrInt(n \div 10) \o <<Digit(n % 10)>>

HasEscape(line) == \E i \in 1..Len(line) : line[i] = ESC

(***************************************************************************)
(* Colour tables and printing                                              *)
(***************************************************************************)
\* colorama's codes for the names ncompare uses: ESC [ <n> m
AnsiFore ==
  [LIGHTBLUE_EX  |-> <<ESC, "[", "9", "4", "m">>,
   LIGHTBLACK_EX |-> <<ESC, "[", "9", "0", "m">>,
   RED           |-> <<ESC, "[", "3", "1", "m">>,
   CYAN          |-> <<ESC, "[", "3", "6", "m">>,
   WHITE         |-> <<ESC, "[", "3", "7", "m">>]

AnsiStyle ==
  [BRIGHT    |-> <<ESC, "[", "1", "m">>,
   RESET_ALL |-> <<ESC, "[", "0", "m">>]

\* for k, v in Fore.__dict__.items(): Fore.__dict__[k] = ""
BlankFore == [k \in DOMAIN AnsiFore |-> <<>>]

\* print_normal(string): print(Fore.WHITE + Style.RESET_ALL + str(string))
print_normal(string) == Fore.WHITE \o Style.RESET_ALL \o string

label_width == 28
value_width == 48
name_width == 47

\* _side_by_side: the one line it prints
_side_by_side(str_a, str_b, str_c, dash_line, highlight_diff) ==
  LET red  == highlight_diff /\ str_b # str_c
      a    == IF red THEN Fore.RED \o str_a ELSE str_a
      fill == IF dash_line THEN "-" ELSE " "
      text == <<" ">> \o RJust(a, label_width, " ")
              \o <<" ">> \o RJust(str_b, value_width, fill)
              \o <<" ">> \o RJust(str_c, value_width, fill)
  IN  IF red THEN text ELSE print_normal(text)

(***************************************************************************)
(* The aligner                                                             *)
(***************************************************************************)
\* raise ValueError(...): no name is this one-token string
ValueError == <<"ValueError">>

\* Mutant of _common_elements_row: the name is never blanked
_common_elements_row_unblanked(i, item, a_items, b_items) == <<i, item, item>>

\* One iteration of the loop of _common_elements: the tuple it yields.
\* a_sorted and b_sorted are used for membership only.
_common_elements_row(i, item, a_items, b_items) ==
  IF item \notin a_items /\ item \notin b_items THEN <<i, ValueError, ValueError>>
  ELSE IF item \notin a_items THEN <<i, <<>>, item>>
  ELSE IF item \notin b_items THEN <<i, item, <<>>>>
  ELSE <<i, item, item>>

\* Mutant of _common_elements: all_items leaves out the union with sequence_b
_common_elements_no_union(sequence_a, sequence_b) ==
  LET a_sorted  == sorted_list(sequence_a)
      b_sorted  == sorted_list(sequence_b)
      all_items == sorted_set(set(a_sorted))
  IN  [k \in 1..Len(all_items) |->
         _common_elements_row(k - 1, all_items[k], set(a_sorted), set(b_sorted))]

\* _common_elements(sequence_a, sequence_b), for two lists: the tuples yielded.
_common_elements(sequence_a, sequence_b) ==
  LET a_sorted  == sorted_list(sequence_a)
      b_sorted  == sorted_list(sequence_b)
      all_items == sorted_set(set(a_sorted) \cup set(b_sorted))
  IN  [k \in 1..Len(all_items) |->
         _common_elements_row(k - 1, all_items[k], set(a_sorted), set(b_sorted))]

\* f"{i:02}"
Fmt02(i) == RJust(StrInt(i), 2, "0")

\* Mutant of _side_by_side_list_diff: the two value columns are swapped
_side_by_side_list_diff_swapped(list_a, list_b) ==
  LET rows == _common_elements(list_a, list_b)
  IN  [k \in 1..Len(rows) |->
         _side_by_side(<<" ", "#">> \o Fmt02(rows[k][1]),
                       strip(rows[k][3]), strip(rows[k][2]), TRUE, TRUE)]

\* _side_by_side_list_diff(list_a, list_b): the lines printed
_side_by_side_list_diff(list_a, list_b) ==
  LET rows == _common_elements(list_a, list_b)
  IN  [k \in 1..Len(rows) |->
         _side_by_side(<<" ", "#">> \o Fmt02(rows[k][1]),
                       strip(rows[k][2]), strip(rows[k][3]), TRUE, TRUE)]

\* chars of the two column titles
FileA == <<"F", "i", "l", "e", " ", "A">>
FileB == <<"F", "i", "l", "e", " ", "B">>

\* _lists_diff(list_a, list_b): the lines printed
_lists_diff_lines(list_a, list_b) ==
  LET groups_are_same == set(list_a) = set(list_b)
  IN  IF groups_are_same
      THEN << Fore.CYAN \o <<"Are lists the same? ---> True.">> >>
      ELSE << Fore.RED \o <<"Are lists the same? ---> False.">>,
              Fore.RED \o <<"Which items are different?">>,
              _side_by_side(<<" ">>, FileA, FileB, FALSE, FALSE) >>
           \o _side_by_side_list_diff(list_a, list_b)

\* _lists_diff(list_a, list_b): the value returned (the function has no return
\* statement)
_lists_diff(list_a, list_b) == None

(***************************************************************************)
(* The files.  A dataset has root variables and one level of groups, each  *)
(* a dict of variables; the variables of one file share one description    *)
(* (dtype, shape, values, scale_factor attribute).                         *)
(***************************************************************************)
NoFile == [exists |-> FALSE]

\* str(the_variable.dtype)
StrDtype(dtype) == IF dtype = "int8" THEN <<"i", "n", "t", "8">> ELSE <<"f", "l", "o", "a", "t", "6", "4">>

\* ", ".join(str(d) for d in seq)
RECURSIVE JoinInts(_)
JoinInts(seq) ==
  IF seq = <<>> THEN <<>>
  ELSE IF Len(seq) = 1 THEN StrInt(seq[1])
  ELSE StrInt(seq[1]) \o <<",", " ">> \o JoinInts(Tail(seq))

\* str(the_variable.shape): the repr of a tuple of ints
StrShape(shape) ==
  IF Len(shape) = 1 THEN <<"(">> \o StrInt(shape[1]) \o <<",", ")">>
  ELSE <<"(">> \o JoinInts(shape) \o <<")">>

\* str(the_variable.chunking()): the model's variables are not chunked
StrChunking(variable) == <<"c", "o", "n", "t", "i", "g", "u", "o", "u", "s">>

\* ds.groups[groupname].variables[varname] / ds.variables[varname] is there
HasVariable(ds, varname, groupname) ==
  IF Truthy(groupname)
  THEN /\ groupname.value \in DOMAIN ds.groups
       /\ varname \in ds.groups[groupname.value]
  ELSE varname \in ds.variables

\* _var_properties(ds, varname, groupname); raised: the lookup raises KeyError
_var_properties(ds, varname, groupname) ==
  IF varname # <<>>
  THEN IF HasVariable(ds, varname, groupname)
       THEN [raised |-> FALSE, the_variable |-> ds.var,
             v_dtype |-> StrDtype(ds.var.dtype),
             v_shape |-> strip(StrShape(ds.var.shape)),
             v_chunking |-> strip(StrChunking(ds.var))]
       ELSE [raised |-> TRUE, the_variable |-> None,
             v_dtype |-> <<>>, v_shape |-> <<>>, v_chunking |-> <<>>]
  ELSE [raised |-> FALSE, the_variable |-> None,
        v_dtype |-> <<>>, v_shape |-> <<>>, v_chunking |-> <<>>]

\* getattr(variable, 'scale_factor', None), then the if around it and str()
ScaleFactorStr(the_variable) ==
  LET sf == IF the_variable = None THEN None ELSE the_variable.scale_factor
  IN  IF Truthy(sf) THEN sf.value ELSE <<" ">>

\* The record of one _var_properties call
Lookup(side, ds, varname, groupname) ==
  [side |-> side, varname |-> varname, groupname |-> groupname,
   found |-> varname # <<>> /\ HasVariable(ds, varname, groupname),
   result |-> _var_properties(ds, varname, groupname)]

\* _print_var_properties_side_by_side: the lines printed, the _var_properties
\* calls made, and whether one of them raised KeyError
_print_var_properties_side_by_side(v_a, v_b, ds_a, ds_b, g_a, g_b) ==
  LET first == _side_by_side(<<"v", "a", "r", ":">>, Take(v_a, name_width), Take(v_b, name_width),
                             FALSE, FALSE)
      pa == _var_properties(ds_a, v_a, g_a)
      pb == _var_properties(ds_b, v_b, g_b)
      la == Lookup("a", ds_a, v_a, g_a)
      lb == Lookup("b", ds_b, v_b, g_b)
  IN  IF pa.raised THEN [lines |-> <<first>>, lookups |-> <<la>>, raised |-> TRUE]
      ELSE IF pb.raised
      THEN [lines |-> <<first>>, lookups |-> <<la, lb>>, raised |-> TRUE]
      ELSE [lines |->
              << first,
                 _side_by_side(<<"d", "t", "y", "p", "e", ":">>, pa.v_dtype, pb.v_dtype, FALSE, FALSE),
                 _side_by_side(<<"s", "h", "a", "p", "e", ":">>, pa.v_shape, pb.v_shape, FALSE, FALSE),
                 _side_by_side(<<"c", "h", "u", "n", "k", "s", "i", "z", "e", ":">>, pa.v_chunking, pb.v_chunking, FALSE, FALSE),
                 _side_by_side(<<"s", "f", ":">>, ScaleFactorStr(pa.the_variable),
                               ScaleFactorStr(pb.the_variable), FALSE, TRUE) >>,
            lookups |-> <<la, lb>>, raised |-> FALSE]

\* The body of compare_two_nc_files as a list of steps: a line to print, or a
\* call of _print_var_properties_side_by_side.
LineStep(line) == [kind |-> "line", line |-> line]
PropsStep(v_a, v_b, g_a, g_b) ==
  [kind |-> "props", v_a |-> v_a, v_b |-> v_b, g_a |-> g_a, g_b |-> g_b]

RECURSIVE Concat(_)
Concat(seqs) == IF seqs = <<>> THEN <<>> ELSE Head(seqs) \o Concat(Tail(seqs))

\* list(d) for the keys of a dict: some order (every use sorts)
KeyList(keys) == sorted_set(keys)

\* The steps of one iteration of the loop over the aligned groups
GroupSteps(row, ds_a, ds_b) ==
  LET g_idx == row[1]
      g_a == row[2]
      g_b == row[3]
      vars_a_sorted == IF g_a # <<>> THEN sorted_set(ds_a.groups[g_a]) ELSE <<>>
      vars_b_sorted == IF g_b # <<>> THEN sorted_set(ds_b.groups[g_b]) ELSE <<>>
      vrows == _common_elements(vars_a_sorted, vars_b_sorted)
  IN  << LineStep(_side_by_side(<<"g", "r", "o", "u", "p", " ", "#">> \o Fmt02(g_idx), strip(g_a), strip(g_b),
                                TRUE, FALSE)),
         LineStep(_side_by_side(<<"n", "u", "m", " ", "v", "a", "r", "i", "a", "b", "l", "e", "s", " ", "i", "n", " ", "g", "r", "o", "u", "p", "s", ":">>, StrInt(Len(vars_a_sorted)),
                                StrInt(Len(vars_b_sorted)), FALSE, FALSE)) >>
      \o [k \in 1..Len(vrows) |->
            PropsStep(vrows[k][2], vrows[k][3], PyStr(g_a), PyStr(g_b))]

WalkSteps(ds_a, ds_b) ==
  LET rrows == _common_elements(KeyList(ds_a.variables), KeyList(ds_b.variables))
      grows == _common_elements(KeyList(DOMAIN ds_a.groups), KeyList(DOMAIN ds_b.groups))
  IN  << LineStep(_side_by_side(<<"-">>, <<"-">>, <<"-">>, TRUE, FALSE)),
         LineStep(_side_by_side(<<"n", "u", "m", " ", "v", "a", "r", "i", "a", "b", "l", "e", "s", " ", "i", "n", " ", "r", "o", "o", "t", " ", "g", "r", "o", "u", "p", ":">>, StrInt(Cardinality(ds_a.variables)),
                                StrInt(Cardinality(ds_b.variables)), FALSE, FALSE)) >>
      \o [k \in 1..Len(rrows) |-> PropsStep(rrows[k][2], rrows[k][3], None, None)]
      \o Concat([k \in 1..Len(grows) |-> GroupSteps(grows[k], ds_a, ds_b)])

\* Run the steps in order, up to the first one that raises
RECURSIVE RunSteps(_, _, _, _)
RunSteps(steps, ds_a, ds_b, acc) ==
  IF steps = <<>> THEN acc
  ELSE LET st == Head(steps)
       IN  IF st.kind = "line"
           THEN RunSteps(Tail(steps), ds_a, ds_b,
                         [acc EXCEPT !.lines = Append(@, st.line)])
           ELSE LET r == _print_var_properties_side_by_side(
                            st.v_a, st.v_b, ds_a, ds_b, st.g_a, st.g_b)
                    nxt == [lines |-> acc.lines \o r.lines,
                            lookups |-> acc.lookups \o r.lookups,
                            props |-> acc.props + 1,
                            raised |-> r.raised]
                IN  IF r.raised THEN nxt ELSE RunSteps(Tail(steps), ds_a, ds_b, nxt)

\* compare_two_nc_files(nc_one, nc_two): the lines printed, the _var_properties
\* calls, the number of _print_var_properties_side_by_side calls, and whether
\* a lookup raised KeyError
compare_two_nc_files(ds_a, ds_b) ==
  RunSteps(WalkSteps(ds_a, ds_b), ds_a, ds_b,
           [lines |-> <<_side_by_side(<<" ">>, FileA, FileB, FALSE, FALSE)>>,
            lookups |-> <<>>, props |-> 0, raised |-> FALSE])

(***************************************************************************)
(* The random sample comparator.  A sampled value is NaN or a number.  A   *)
(* float64 number counts units of 5e-7 (half the threshold) and float      *)
(* arithmetic on these few values is exact; an int8 number is the integer  *)
(* itself.                                                                 *)
(***************************************************************************)
\* Bound: the largest size of a dimension of a variable
MaxDim == 2
\* Bound: num_comparisons, the number of draws (100 by default in the source)
num_comparisons == 3
\* Bound: the longest list given to _lists_diff / _common_elements on their own
MaxListLen == 3
\* Bound: the number of compare() calls in one process
MaxCalls == 2

NaN == [nan |-> TRUE, v |-> 0]
Num(k) == [nan |-> FALSE, v |-> k]

\* thresh: float = 1e-6, in units of 5e-7
thresh == 2
\* 1.0 in units of 5e-7
units_per_one == 2000000

\* The dtype of .values as xarray decodes it: an int8 variable stays int8
\* unless a scale_factor attribute makes it float
values_dtype(variable) ==
  IF variable.dtype = "int8" /\ variable.scale_factor = None THEN "int8" ELSE "float64"

\* numpy int8 arithmetic wraps around
Wrap8(x) == ((x + 128) % 256) - 128

\* Mutant of Indices: random.randint(0, d), one past the last index
IndicesInclusive(shape) ==
  {idx \in [1..Len(shape) -> 0..MaxDim] : \A d \in 1..Len(shape) : idx[d] <= shape[d]}

\* The indices random.randint(0, d - 1) can draw, d over nc_var_a.shape
Indices(shape) ==
  {idx \in [1..Len(shape) -> 0..(MaxDim - 1)] : \A d \in 1..Len(shape) : idx[d] <= shape[d] - 1}

\* values[index] does not raise IndexError: numpy takes an index of at most
\* as many entries as the array has dimensions, each within its dimension
InBounds(shape, index) ==
  /\ Len(index) <= Len(shape)
  /\ \A d \in 1..Len(index) : index[d] >= 0 /\ index[d] <= shape[d] - 1

\* Position of values[index] in the row-major list of the values
RECURSIVE Flat(_, _)
Flat(shape, index) ==
  IF Len(shape) = 0 THEN 0
  ELSE Flat(SubSeq(shape, 1, Len(shape) - 1), SubSeq(index, 1, Len(index) - 1))
         * shape[Len(shape)] + index[Len(index)]

\* The number of values of an array of this shape
RECURSIVE Size(_)
Size(shape) == IF Len(shape) = 0 THEN 1 ELSE shape[1] * Size(Tail(shape))

\* values[index] in row-major order: the one value when the index has an entry
\* for every dimension, the sub-array of the remaining dimensions otherwise
SubArray(variable, index) ==
  LET k == Len(index)
      n == Size(SubSeq(variable.shape, k + 1, Len(variable.shape)))
      first == Flat(SubSeq(variable.shape, 1, k), index) * n
  IN  SubSeq(variable.values, first + 1, first + n)

\* values[index] when it is one value
ValueAt(variable, index) == SubArray(variable, index)[1]

\* np.isnan(v)
isnan(v) == v.nan

\* diff = v2 - v1, with the dtype of the result
Subtract(v2, dt2, v1, dt1) ==
  IF dt1 = "int8" /\ dt2 = "int8"
  THEN [dtype |-> "int8", v |-> Wrap8(v2.v - v1.v)]
  ELSE [dtype |-> "float64",
        v |-> (IF dt2 = "int8" THEN v2.v * units_per_one ELSE v2.v)
              - (IF dt1 = "int8" THEN v1.v * units_per_one ELSE v1.v)]

\* abs(diff)
Abs(d) ==
  LET a == IF d.v < 0 THEN 0 - d.v ELSE d.v
  IN  [d EXCEPT !.v = IF d.dtype = "int8" THEN Wrap8(a) ELSE a]

\* x > thresh
ExceedsThresh(x) ==
  (IF x.dtype = "int8" THEN x.v * units_per_one ELSE x.v) > thresh

\* The evaluation of the two values in _match_random_value: its return value
ValuesMatch(v1, dt1, v2, dt2) ==
  IF isnan(v1) \/ isnan(v2) THEN TRUE
  ELSE ~ExceedsThresh(Abs(Subtract(v2, dt2, v1, dt1)))

\* _match_random_value(nc_var_a, nc_var_b) once rand_index is drawn: the
\* exception raised, the value returned, the lines printed.  Reading a value
\* raises IndexError; rand_index has an entry for every dimension of
\* nc_var_a, so v1 is one value, and v2 is an array when nc_var_b has more
\* dimensions.  A NaN v1 short-circuits the "or"; otherwise the truth value
\* of an array of more than one value raises ValueError, and an array of one
\* value is evaluated as that value.
_match_random_value(nc_var_a, nc_var_b, rand_index) ==
  IF ~InBounds(nc_var_a.shape, rand_index) \/ ~InBounds(nc_var_b.shape, rand_index)
  THEN [raised |-> TRUE, exc |-> "IndexError", matched |-> FALSE, lines |-> <<>>]
  ELSE IF isnan(ValueAt(nc_var_a, rand_index))
  THEN [raised |-> FALSE, exc |-> "none", matched |-> TRUE, lines |-> <<>>]
  ELSE IF Len(SubArray(nc_var_b, rand_index)) # 1
  THEN [raised |-> TRUE, exc |-> "ValueError", matched |-> FALSE, lines |-> <<>>]
  ELSE LET v1 == ValueAt(nc_var_a, rand_index)
           v2 == ValueAt(nc_var_b, rand_index)
           ok == ValuesMatch(v1, values_dtype(nc_var_a), v2, values_dtype(nc_var_b))
       IN  [raised |-> FALSE, exc |-> "none", matched |-> ok,
            lines |-> IF ok THEN <<>>
                      ELSE << <<>>,
                              Fore.RED \o <<"Difference exceeded threshold (diff == ...">>,
                              print_normal(<<"var shape: ...">>),
                              print_normal(<<"indices:   ...">>),
                              print_normal(<<"value a: ...">>),
                              print_normal(<<"value b: ...">>) >>]

(***************************************************************************)
(* Dataset handles.  A handle is held while a local names it; one opened   *)
(* without "with" and never closed is dropped when its function returns or *)
(* unwinds, and stays open until the garbage collector finalizes it.       *)
(***************************************************************************)
NoHandles == [held |-> 0, dropped |-> 0]
Open(h, n) == [h EXCEPT !.held = @ + n]
Close(h, n) == [h EXCEPT !.held = @ - n]
Drop(h, n) == [h EXCEPT !.held = @ - n, !.dropped = @ + n]
OpenCount(h) == h.held + h.dropped

\* with <open>(...) as ds: ...  -- opened and closed again
WithDataset(h, n) == Close(Open(h, n), n)

\* repr of a list of names: ['g1', 'g2']
RECURSIVE JoinNames(_)
JoinNames(seq) ==
  IF seq = <<>> THEN <<>>
  ELSE IF Len(seq) = 1 THEN <<"'">> \o seq[1] \o <<"'">>
  ELSE <<"'">> \o seq[1] \o <<"'", ",", " ">> \o JoinNames(Tail(seq))

ReprList(seq) == <<"[">> \o JoinNames(seq) \o <<"]">>

\* "...<%s>..." % name
Percent(before, name, after) == <<before>> \o name \o <<after>>

\* _print_dims(nc_filepath): the line printed (the dimensions are not modelled)
_print_dims(ds) == print_normal(<<"[dims]">>)

\* _print_groups(nc_filepath): groups_list and the line printed
_print_groups(ds) ==
  LET groups_list == KeyList(DOMAIN ds.groups)
  IN  [groups_list |-> groups_list,
       lines |-> <<print_normal(ReprList(sorted_list(groups_list)))>>]

\* xr.open_dataset(nc_filepath, backend_kwargs={"group": groupname}) raises
\* OSError when the file has no such group (the root group is always there)
GroupOpens(ds, groupname) == groupname \in DOMAIN ds.groups

\* _print_vars(nc_filepath, groupname): the exception raised if any, the
\* lines printed, the list returned and the handles left open
_print_vars(ds, groupname) ==
  IF ~GroupOpens(ds, groupname)
  THEN [exc |-> "OSError", opened |-> 0, grp_varlist |-> <<>>,
        lines |-> <<print_normal(
                      <<"\nError occurred when attempting to open group within <%s>.\n">>)>>]
  ELSE LET grp_varlist == sorted_list(KeyList(ds.groups[groupname]))
       IN  [exc |-> "none", opened |-> 1, grp_varlist |-> grp_varlist,
            lines |-> <<print_normal(ReprList(grp_varlist))>>]

\* xr.open_dataset(nc_filepath, backend_kwargs={"group": groupname})[varname]:
\* the exception raised if any and the handles left open
OpenVariable(ds, groupname, varname) ==
  IF ~GroupOpens(ds, groupname) THEN [exc |-> "OSError", opened |-> 0]
  ELSE IF varname \notin ds.groups[groupname] THEN [exc |-> "KeyError", opened |-> 1]
  ELSE [exc |-> "none", opened |-> 1]

\* _print_sample_values(nc_filepath, groupname, varname): values[0, :] needs
\* two dimensions at least and a first one that is not empty
_print_sample_values(ds, groupname, varname) ==
  LET o == OpenVariable(ds, groupname, varname)
  IN  IF o.exc # "none" THEN [exc |-> o.exc, opened |-> o.opened, lines |-> <<>>]
      ELSE IF Len(ds.var.shape) < 2 \/ ds.var.shape[1] < 1
      THEN [exc |-> "IndexError", opened |-> 1, lines |-> <<>>]
      ELSE [exc |-> "none", opened |-> 1,
            lines |-> <<print_normal(<<"values[0, :]">>)>>]

(***************************************************************************)
(* compare()                                                               *)
(***************************************************************************)
NoLoop == [i |-> 0, num_mismatches |-> 0, markers |-> 0, returned |-> <<>>,
           last |-> <<>>]

\* What an exception that compare() does not catch leaves behind
Raise(e) == /\ exc' = e
            /\ pc' = "raised"

\* lines 44-51: the paths are checked, the colours are set
Begin ==
  /\ pc = "call"
  /\ out' = <<>>
  /\ IF ~nc_a.exists \/ ~nc_b.exists
     THEN /\ Raise("FileNotFoundError")
          /\ UNCHANGED Fore
     ELSE /\ Fore' = IF args.no_color THEN BlankFore ELSE Fore
          /\ pc' = "dimensions"
          /\ UNCHANGED exc
  /\ UNCHANGED <<Style, nc_a, nc_b, args, phases, handles, ret, loop, lookups,
                 calls, fn>>

\* lines 53-54: compare_dimensions
CompareDimensions ==
  /\ pc = "dimensions"
  /\ out' = << Fore.LIGHTBLUE_EX \o <<"\nDimensions:">>,
               _print_dims(nc_a), _print_dims(nc_b) >>
  /\ handles' = WithDataset(WithDataset(handles, 1), 1)
  /\ phases' = Append(phases, "dimensions")
  /\ pc' = "groups"
  /\ UNCHANGED <<Fore, Style, nc_a, nc_b, args, ret, exc, loop, lookups, calls, fn>>

\* lines 56-57: compare_groups
CompareGroups ==
  /\ pc = "groups"
  /\ LET ga == _print_groups(nc_a)
         gb == _print_groups(nc_b)
     IN  out' = << Fore.LIGHTBLUE_EX \o <<"\nGroups:">> >>
                \o ga.lines \o gb.lines
                \o _lists_diff_lines(ga.groups_list, gb.groups_list)
  /\ handles' = WithDataset(WithDataset(handles, 1), 1)
  /\ phases' = Append(phases, "groups")
  /\ pc' = "group"
  /\ UNCHANGED <<Fore, Style, nc_a, nc_b, args, ret, exc, loop, lookups, calls, fn>>

\* lines 59-61: compare_ingroup_variables
CompareIngroupVariables ==
  /\ pc = "group"
  /\ Truthy(args.comparison_var_group)
  /\ phases' = Append(phases, "ingroup_variables")
  /\ LET g  == args.comparison_var_group.value
         hd == Fore.LIGHTBLUE_EX
               \o Percent("\nVariables within specified group <", g, ">:")
         va == _print_vars(nc_a, g)
         vb == _print_vars(nc_b, g)
     IN  IF va.exc # "none"
         THEN /\ out' = <<hd>> \o va.lines
              /\ handles' = handles
              /\ Raise(va.exc)
         ELSE IF vb.exc # "none"
         THEN /\ out' = <<hd>> \o va.lines \o vb.lines
              /\ handles' = Drop(Open(handles, va.opened), va.opened)
              /\ Raise(vb.exc)
         ELSE /\ out' = <<hd>> \o va.lines \o vb.lines
                        \o _lists_diff_lines(va.grp_varlist, vb.grp_varlist)
              /\ handles' = Drop(Open(handles, va.opened + vb.opened),
                                 va.opened + vb.opened)
              /\ pc' = "variable"
              /\ UNCHANGED exc
  /\ UNCHANGED <<Fore, Style, nc_a, nc_b, args, ret, loop, lookups, calls, fn>>

\* lines 79-80
NoGroupSelected ==
  /\ pc = "group"
  /\ ~Truthy(args.comparison_var_group)
  /\ out' = << Fore.LIGHTBLACK_EX
               \o <<"\nNo variable group selected for comparison. Skipping..">> >>
  /\ pc' = "all_variables"
  /\ UNCHANGED <<Fore, Style, nc_a, nc_b, args, phases, handles, ret, exc, loop,
                 lookups, calls, fn>>

\* lines 77-78
NoVariableSelected ==
  /\ pc = "variable"
  /\ ~Truthy(args.comparison_var_name)
  /\ out' = << Fore.LIGHTBLACK_EX
               \o <<"\nNo variable selected for comparison. Skipping..">> >>
  /\ pc' = "all_variables"
  /\ UNCHANGED <<Fore, Style, nc_a, nc_b, args, phases, handles, ret, exc, loop,
                 lookups, calls, fn>>

\* Mutant of InTry: no except clause, every exception propagates
InTryNotCaught(e) ==
  /\ exc' = e
  /\ pc' = "raised"

\* Where an exception raised inside the try block of lines 64-70 goes:
\* "except KeyError" catches a KeyError and nothing else
InTry(e) ==
  /\ exc' = e
  /\ pc' = IF e = "KeyError" THEN "except" ELSE "raised"

\* lines 63-66: compare_sample_values
CompareSampleValues ==
  /\ pc = "variable"
  /\ Truthy(args.comparison_var_name)
  /\ phases' = Append(phases, "sample_values")
  /\ LET g  == args.comparison_var_group.value
         v  == args.comparison_var_name.value
         hd == Fore.LIGHTBLUE_EX
               \o Percent("\nSample values within specified variable <", v, ">:")
         sa == _print_sample_values(nc_a, g, v)
         sb == _print_sample_values(nc_b, g, v)
     IN  IF sa.exc # "none"
         THEN /\ out' = <<hd>>
              /\ handles' = Drop(Open(handles, sa.opened), sa.opened)
              /\ InTry(sa.exc)
         ELSE IF sb.exc # "none"
         THEN /\ out' = <<hd>> \o sa.lines
              /\ handles' = Drop(Open(handles, sa.opened + sb.opened),
                                 sa.opened + sb.opened)
              /\ InTry(sb.exc)
         ELSE /\ out' = <<hd>> \o sa.lines \o sb.lines
              /\ handles' = Drop(Open(handles, 2), 2)
              /\ pc' = "random_values"
              /\ UNCHANGED exc
  /\ UNCHANGED <<Fore, Style, nc_a, nc_b, args, ret, loop, lookups, calls, fn>>

\* lines 68-70 and 108-111: compare_multiple_random_values up to its loop
RandomOpen ==
  /\ pc = "random_values"
  /\ phases' = Append(phases, "random_values")
  /\ out' = << Fore.LIGHTBLUE_EX
               \o Percent("\nChecking multiple random values within specified variable <",
                          args.comparison_var_name.value, ">:") >>
  /\ LET g  == args.comparison_var_group.value
         v  == args.comparison_var_name.value
         oa == OpenVariable(nc_a, g, v)
         ob == OpenVariable(nc_b, g, v)
     IN  IF oa.exc # "none"
         THEN /\ handles' = Drop(Open(handles, oa.opened), oa.opened)
              /\ InTry(oa.exc)
              /\ UNCHANGED loop
         ELSE IF ob.exc # "none"
         THEN /\ handles' = Drop(Open(handles, 1 + ob.opened), 1 + ob.opened)
              /\ InTry(ob.exc)
              /\ UNCHANGED loop
         ELSE /\ handles' = Open(handles, 2)
              /\ loop' = NoLoop
              /\ pc' = "random_loop"
              /\ UNCHANGED exc
  /\ UNCHANGED <<Fore, Style, nc_a, nc_b, args, ret, lookups, calls, fn>>

\* lines 112-116: one iteration of the loop, with its _match_random_value call
RandomDraw ==
  /\ pc = "random_loop"
  /\ loop.i < num_comparisons
  /\ \E rand_index \in Indices(nc_a.var.shape) :
       LET r == _match_random_value(nc_a.var, nc_b.var, rand_index)
       IN  IF r.raised
           THEN /\ InTry(r.exc)
                /\ handles' = Drop(handles, 2)
                /\ out' = <<>>
                /\ loop' = [loop EXCEPT
                              !.last = <<[rand_index |-> rand_index, raised |-> TRUE,
                                          matched |-> FALSE]>>]
           ELSE /\ loop' = [loop EXCEPT
                              !.i = @ + 1,
                              !.num_mismatches = IF r.matched THEN @ ELSE @ + 1,
                              !.markers = IF r.matched THEN @ + 1 ELSE @,
                              !.last = <<[rand_index |-> rand_index, raised |-> FALSE,
                                          matched |-> r.matched]>>]
                /\ out' = r.lines
                          \o (IF r.matched THEN <<print_normal(<<".">>)>> ELSE <<>>)
                /\ UNCHANGED <<handles, pc, exc>>
  /\ UNCHANGED <<Fore, Style, nc_a, nc_b, args, phases, ret, lookups, calls, fn>>

\* lines 118-122: the summary; the function ends without a return statement
RandomSummary ==
  /\ pc = "random_loop"
  /\ loop.i >= num_comparisons
  /\ out' = << IF loop.num_mismatches > 0
               THEN Fore.RED \o <<" ">> \o StrInt(loop.num_mismatches)
                    \o <<" mismatches, out of ">> \o StrInt(num_comparisons)
                    \o <<" samples.">>
               ELSE Fore.CYAN \o <<" No mismatches.">>,
               print_normal(<<"Done.">>) >>
  /\ loop' = [loop EXCEPT !.returned = <<None>>]
  /\ handles' = Drop(handles, 2)
  /\ pc' = "all_variables"
  /\ UNCHANGED <<Fore, Style, nc_a, nc_b, args, phases, ret, exc, lookups, calls, fn>>

\* lines 72-76: except KeyError
HandleKeyError ==
  /\ pc = "except"
  /\ out' = << Style.BRIGHT \o Fore.RED
               \o <<"\nError when comparing values for variable <%s> in group <%s>.">>,
               <<"traceback.format_exc()">>,
               <<"\n">> >>
  /\ pc' = "all_variables"
  /\ UNCHANGED <<Fore, Style, nc_a, nc_b, args, phases, handles, ret, exc, loop,
                 lookups, calls, fn>>

\* lines 82-83: compare_two_nc_files
CompareTwoNcFiles ==
  /\ pc = "all_variables"
  /\ phases' = Append(phases, "all_variables")
  /\ LET r == compare_two_nc_files(nc_a, nc_b)
     IN  /\ out' = << Fore.LIGHTBLUE_EX \o <<"\nAll variables:">> >> \o r.lines
         /\ lookups' = r.lookups
         /\ IF r.raised
            THEN Raise("KeyError")
            ELSE pc' = "finish" /\ UNCHANGED exc
  /\ handles' = WithDataset(handles, 2)
  /\ UNCHANGED <<Fore, Style, nc_a, nc_b, args, ret, loop, calls, fn>>

\* Mutant of Finish: the exit code is 1
FinishNonZero ==
  /\ pc = "finish"
  /\ out' = << Fore.LIGHTBLUE_EX \o <<"\nDone.">> >>
  /\ ret' = <<PyInt(1)>>
  /\ pc' = "done"
  /\ UNCHANGED <<Fore, Style, nc_a, nc_b, args, phases, handles, exc, loop,
                 lookups, calls, fn>>

\* lines 85-86
Finish ==
  /\ pc = "finish"
  /\ out' = << Fore.LIGHTBLUE_EX \o <<"\nDone.">> >>
  /\ ret' = <<PyInt(0)>>
  /\ pc' = "done"
  /\ UNCHANGED <<Fore, Style, nc_a, nc_b, args, phases, handles, exc, loop,
                 lookups, calls, fn>>

\* The garbage collector finalizes a dropped handle, which closes it: at any
\* time, or never
Finalize ==
  /\ handles.dropped > 0
  /\ handles' = [handles EXCEPT !.dropped = @ - 1]
  /\ UNCHANGED <<Fore, Style, nc_a, nc_b, args, pc, out, phases, ret, exc, loop,
                 lookups, calls, fn>>

\* A later compare() call in the same process, after one that returned: the files are as they were,
\* the arguments are new, and so are the locals.  Fore, Style and the
\* handles belong to the process.
CompareAgain ==
  /\ pc = "done"
  /\ calls < MaxCalls
  /\ calls' = calls + 1
  /\ \E nc \in BOOLEAN :
       args' = [args EXCEPT !.no_color = nc]
  /\ pc' = "call"
  /\ out' = <<>>
  /\ phases' = <<>>
  /\ ret' = <<>>
  /\ exc' = "none"
  /\ loop' = NoLoop
  /\ lookups' = <<>>
  /\ UNCHANGED <<Fore, Style, nc_a, nc_b, handles, fn>>

(***************************************************************************)
(* _common_elements and _lists_diff called on their own                    *)
(***************************************************************************)
NoCall == [op |-> "none", list_a |-> <<>>, list_b |-> <<>>, rows |-> <<>>,
           returned |-> <<>>, lines |-> <<>>]

CallCommonElements ==
  /\ fn.op = "input"
  /\ fn' = [fn EXCEPT !.op = "_common_elements",
                      !.rows = _common_elements(fn.list_a, fn.list_b)]
  /\ UNCHANGED <<Fore, Style, nc_a, nc_b, args, pc, out, phases, handles, ret, exc,
                 loop, lookups, calls>>

CallListsDiff ==
  /\ fn.op = "input"
  /\ fn' = [fn EXCEPT !.op = "_lists_diff",
                      !.returned = <<_lists_diff(fn.list_a, fn.list_b)>>,
                      !.lines = _lists_diff_lines(fn.list_a, fn.list_b)]
  /\ UNCHANGED <<Fore, Style, nc_a, nc_b, args, pc, out, phases, handles, ret, exc,
                 loop, lookups, calls>>

(***************************************************************************)
(* Inputs                                                                  *)
(***************************************************************************)
G1 == <<"g", "1">>
G2 == <<"g", "2">>
V1 == <<"v">>
V2 == <<"v", "2">>
AlignNames == {<<"x">>, <<"y">>, <<"z">>}

Lists(names, n) == UNION {[1..k -> names] : k \in 0..n}

\* The datasets with root variables and groups of these names
GroupDicts(group_names, var_names) ==
  UNION {[gs -> SUBSET var_names] : gs \in SUBSET group_names}

Datasets(root_names, group_names, var_names, variables) ==
  {[exists |-> TRUE, variables |-> rv, groups |-> gd, var |-> v] :
     rv \in SUBSET root_names, gd \in GroupDicts(group_names, var_names),
     v \in variables}

\* Variables: a float row with a NaN, a float row that differs from it by more
\* than the threshold and carries a scale_factor, a one-dimensional variable, and
\* an int8 variable of one value
VarF == [dtype |-> "float64", shape |-> <<1, 2>>, values |-> <<Num(0), NaN>>,
         scale_factor |-> None]
VarG == [dtype |-> "float64", shape |-> <<1, 2>>, values |-> <<Num(3), Num(0)>>,
         scale_factor |-> PyFloat(<<"0", ".", "1">>, FALSE)]
VarR == [dtype |-> "float64", shape |-> <<2>>, values |-> <<Num(0), Num(0)>>,
         scale_factor |-> None]
VarS == [dtype |-> "int8", shape |-> <<1, 1>>, values |-> <<Num(0)>>,
         scale_factor |-> None]

\* The variables the sample comparator is run on: 1..MaxDim values, as a row
\* of a two-dimensional variable or as a one-dimensional variable
FloatValues == {NaN, Num(0), Num(2), Num(3)}
Int8Values == {Num(0 - 128), Num(0), Num(127)}
SampleShapes(n) == {<<1, n>>, <<n>>}
SampleVariables ==
  UNION {{[dtype |-> "float64", shape |-> sh, values |-> vs, scale_factor |-> None] :
            vs \in [1..n -> FloatValues], sh \in SampleShapes(n)} : n \in 1..MaxDim}
  \cup
  UNION {{[dtype |-> "int8", shape |-> sh, values |-> vs, scale_factor |-> None] :
            vs \in [1..n -> Int8Values], sh \in SampleShapes(n)} : n \in 1..MaxDim}

Arguments(groups, names) ==
  [comparison_var_group : {None} \cup {PyStr(g) : g \in groups},
   comparison_var_name : {None} \cup {PyStr(v) : v \in names},
   no_color : BOOLEAN]

\* What every specification starts from: a fresh process
Fresh ==
  /\ Fore = AnsiFore
  /\ Style = AnsiStyle
  /\ out = <<>>
  /\ phases = <<>>
  /\ handles = NoHandles
  /\ ret = <<>>
  /\ exc = "none"
  /\ loop = NoLoop
  /\ lookups = <<>>
  /\ calls = 1

\* One compare() call
Init ==
  /\ Fresh
  /\ nc_a \in {NoFile} \cup Datasets({V1}, {G1}, {V1}, {VarF, VarR})
  /\ nc_b \in {NoFile} \cup Datasets({V1}, {G1}, {V1}, {VarF, VarG, VarS})
  /\ args \in Arguments({G1}, {V1})
  /\ pc = "call"
  /\ fn = NoCall

\* A step of compare()
Step ==
  \/ Begin
  \/ CompareDimensions
  \/ CompareGroups
  \/ CompareIngroupVariables
  \/ NoGroupSelected
  \/ NoVariableSelected
  \/ CompareSampleValues
  \/ RandomOpen
  \/ RandomDraw
  \/ RandomSummary
  \/ HandleKeyError
  \/ CompareTwoNcFiles
  \/ Finish

Next ==
  \/ Step
  \/ Finalize

Spec == Init /\ [][Next]_vars

\* Several compare() calls in one process
InitCalls ==
  /\ Fresh
  /\ nc_a \in Datasets({V1}, {G1}, {V1}, {VarF})
  /\ nc_b \in Datasets({V1}, {G1}, {V1}, {VarG})
  /\ args \in Arguments({G1}, {})
  /\ pc = "call"
  /\ fn = NoCall

NextCalls ==
  \/ Begin
  \/ CompareDimensions
  \/ CompareGroups
  \/ CompareIngroupVariables
  \/ NoGroupSelected
  \/ NoVariableSelected
  \/ CompareTwoNcFiles
  \/ Finish
  \/ CompareAgain

SpecCalls == InitCalls /\ [][NextCalls]_vars

\* compare_two_nc_files on its own
InitWalk ==
  /\ Fresh
  /\ nc_a \in Datasets({V1}, {G1, G2}, {V1, V2}, {VarF})
  /\ nc_b \in Datasets({V1}, {G1, G2}, {V1, V2}, {VarG})
  /\ args = [comparison_var_group |-> None, comparison_var_name |-> None,
             no_color |-> FALSE]
  /\ pc = "all_variables"
  /\ fn = NoCall

NextWalk ==
  \/ CompareTwoNcFiles
  \/ Finish

SpecWalk == InitWalk /\ [][NextWalk]_vars

\* compare_multiple_random_values on its own: group g1 of each file holds
\* variable v
InitSample ==
  /\ Fresh
  /\ \E va \in SampleVariables, vb \in SampleVariables :
       /\ nc_a = [exists |-> TRUE, variables |-> {}, groups |-> [g \in {G1} |-> {V1}],
                  var |-> va]
       /\ nc_b = [exists |-> TRUE, variables |-> {}, groups |-> [g \in {G1} |-> {V1}],
                  var |-> vb]
  /\ args = [comparison_var_group |-> PyStr(G1), comparison_var_name |-> PyStr(V1),
             no_color |-> FALSE]
  /\ pc = "random_values"
  /\ fn = NoCall

NextSample ==
  \/ RandomOpen
  \/ RandomDraw
  \/ RandomSummary

SpecSample == InitSample /\ [][NextSample]_vars

\* _common_elements and _lists_diff on their own
InitAlign ==
  /\ Fresh
  /\ nc_a = NoFile
  /\ nc_b = NoFile
  /\ args = [comparison_var_group |-> None, comparison_var_name |-> None,
             no_color |-> FALSE]
  /\ pc = "none"
  /\ \E la \in Lists(AlignNames, MaxListLen), lb \in Lists(AlignNames, MaxListLen) :
       fn = [NoCall EXCEPT !.op = "input", !.list_a = la, !.list_b = lb]

NextAlign ==
  \/ CallCommonElements
  \/ CallListsDiff

SpecAlign == InitAlign /\ [][NextAlign]_vars

(***************************************************************************)
(* Claims                                                                  *)
(***************************************************************************)
\* The two value columns of a line printed by _side_by_side (values no wider
\* than the column)
ColumnA(line) == SubSeq(line, Len(line) - 2 * value_width, Len(line) - value_width - 1)
ColumnB(line) == SubSeq(line, Len(line) - value_width + 1, Len(line))
EmptyColumn(fill) == [i \in 1..value_width |-> fill]

\* C1 (SpecAlign).  Alignment completeness: _common_elements yields exactly
\* |A \cup B| rows, one per member of the union; no row has both names empty;
\* a row carries the name in both fields iff the name is in both A and B; a
\* row of a name only in A has an empty B field, and the other way round.
C1_AlignmentComplete ==
  fn.op = "_common_elements" =>
    LET A == set(fn.list_a)
        B == set(fn.list_b)
        rows == fn.rows
        K == 1..Len(rows)
    IN  /\ Len(rows) = Cardinality(A \cup B)
        /\ \A n \in A \cup B :
             Cardinality({k \in K : rows[k][2] = n \/ rows[k][3] = n}) = 1
        /\ \A k \in K :
             /\ rows[k][1] = k - 1
             /\ rows[k][2] # ValueError /\ rows[k][3] # ValueError
             /\ rows[k][2] # <<>> \/ rows[k][3] # <<>>
             /\ rows[k][2] \in A \cup {<<>>}
             /\ rows[k][3] \in B \cup {<<>>}
             /\ rows[k][2] # <<>> /\ rows[k][3] # <<>> => rows[k][2] = rows[k][3]
        /\ \A n \in A \cup B :
             (\E k \in K : rows[k][2] = n /\ rows[k][3] = n) <=> n \in A \cap B
        /\ \A n \in A \ B : \E k \in K : rows[k][2] = n /\ rows[k][3] = <<>>
        /\ \A n \in B \ A : \E k \in K : rows[k][2] = <<>> /\ rows[k][3] = n

\* C1 witness: an alignment with a name only in A, one only in B, one in both,
\* from a list with a duplicate
C1_Witness ==
  /\ fn.op = "_common_elements"
  /\ set(fn.list_a) \ set(fn.list_b) # {}
  /\ set(fn.list_b) \ set(fn.list_a) # {}
  /\ set(fn.list_a) \cap set(fn.list_b) # {}
  /\ Len(fn.list_a) > Cardinality(set(fn.list_a))
  /\ Len(fn.rows) = 3

\* C2 as claimed (SpecAlign).  _lists_diff returns true iff set(listA) =
\* set(listB), and false otherwise.
C2_ReturnsVerdict ==
  fn.op = "_lists_diff" =>
    fn.returned = <<PyBool(set(fn.list_a) = set(fn.list_b))>>

\* C2 amended (SpecAlign).  _lists_diff returns None whatever the lists; it
\* prints the verdict True iff set(listA) = set(listB) and False otherwise;
\* when the sets differ it prints the File A / File B header and one aligned
\* row per member of the union, a name only in B in the B column with the A
\* column empty, a name only in A in the A column with the B column empty.
C2_PrintsVerdict ==
  fn.op = "_lists_diff" =>
    LET A == set(fn.list_a)
        B == set(fn.list_b)
        lines == fn.lines
    IN  /\ fn.returned = <<None>>
        /\ Len(lines) >= 1
        /\ A = B <=> lines[1] = Fore.CYAN \o <<"Are lists the same? ---> True.">>
        /\ A # B <=> lines[1] = Fore.RED \o <<"Are lists the same? ---> False.">>
        /\ A = B => Len(lines) = 1
        /\ A # B =>
             /\ Len(lines) = 3 + Cardinality(A \cup B)
             /\ ColumnA(lines[3]) = RJust(FileA, value_width, " ")
             /\ ColumnB(lines[3]) = RJust(FileB, value_width, " ")
             /\ \A n \in A \cup B :
                  \E k \in 4..Len(lines) :
                    /\ ColumnA(lines[k]) = IF n \in A THEN RJust(n, value_width, "-")
                                           ELSE EmptyColumn("-")
                    /\ ColumnB(lines[k]) = IF n \in B THEN RJust(n, value_width, "-")
                                           ELSE EmptyColumn("-")

\* C2 witness: lists with a duplicate and in a different order that differ by
\* a name only in B
C2_Witness ==
  /\ fn.op = "_lists_diff"
  /\ fn.returned = <<None>>
  /\ fn.list_a = << <<"y">>, <<"x">>, <<"x">> >>
  /\ fn.list_b = << <<"x">>, <<"z">>, <<"y">> >>
  /\ Len(fn.lines) = 6

GroupGiven == Truthy(args.comparison_var_group)
VariableGiven == Truthy(args.comparison_var_name)
LastPhase == IF phases = <<>> THEN "none" ELSE phases[Len(phases)]
FocusedPhases == {"ingroup_variables", "sample_values", "random_values"}
ErrorReport ==
  << Style.BRIGHT \o Fore.RED
     \o <<"\nError when comparing values for variable <%s> in group <%s>.">>,
     <<"traceback.format_exc()">>,
     <<"\n">> >>

\* C3 as claimed (Spec).  A lookup failure for a group or a variable that one
\* file lacks, anywhere in the focused block (in-group variable diff, sample
\* print, random-sample comparison), never aborts the run.
C3_LookupFailureRecovered ==
  exc \in {"OSError", "KeyError"} /\ LastPhase \in FocusedPhases => pc # "raised"

\* C3 amended (Spec).  A lookup failure for a variable that the group of one
\* file lacks (KeyError, in the sample print or the random-sample comparison)
\* is caught and reported, the run goes on to the structural walk and returns
\* 0; a group that one file lacks makes the in-group variable diff raise
\* OSError, which is not caught and ends the run there.
C3_KeyErrorRecovered ==
  /\ exc = "KeyError" =>
       /\ LastPhase \in {"sample_values", "random_values", "all_variables"}
       /\ \/ args.comparison_var_name.value
               \notin nc_a.groups[args.comparison_var_group.value]
          \/ args.comparison_var_name.value
               \notin nc_b.groups[args.comparison_var_group.value]
       /\ pc \in {"except", "all_variables", "finish", "done"}
       /\ pc = "all_variables" => out = ErrorReport
       /\ pc \in {"finish", "done"} => LastPhase = "all_variables"
       /\ pc = "done" => ret = <<PyInt(0)>>
  /\ exc = "OSError" =>
       /\ pc = "raised"
       /\ LastPhase = "ingroup_variables"
       /\ \/ args.comparison_var_group.value \notin DOMAIN nc_a.groups
          \/ args.comparison_var_group.value \notin DOMAIN nc_b.groups

\* C3 witness: the variable is in file A's group and not in file B's; the run
\* has reported the KeyError, walked the structure and returned 0
C3_Witness ==
  /\ exc = "KeyError"
  /\ pc = "done"
  /\ ret = <<PyInt(0)>>
  /\ args.comparison_var_name.value \in nc_a.groups[args.comparison_var_group.value]
  /\ args.comparison_var_name.value \notin nc_b.groups[args.comparison_var_group.value]

\* C4 as claimed (Spec).  No dataset handle is open at a phase boundary or
\* when compare returns (inside the random-sample comparison its two
\* variables are legitimately open).
C4_HandlesClosed ==
  pc # "random_loop" => OpenCount(handles) = 0

\* C5 as claimed (Spec).  With no_color=True every colour and style code
\* prepended is empty, and no emitted line holds an ANSI escape sequence.
C5_NoColorPlainText ==
  args.no_color /\ pc \notin {"call", "raised"} =>
    /\ \A k \in DOMAIN Fore : Fore[k] = <<>>
    /\ \A i \in 1..Len(out) : ~HasEscape(out[i])

\* The order of the phases of a run
PhaseOrder(random) ==
  <<"dimensions", "groups">>
  \o (IF GroupGiven THEN <<"ingroup_variables">> ELSE <<>>)
  \o (IF GroupGiven /\ VariableGiven THEN <<"sample_values">> ELSE <<>>)
  \o (IF random THEN <<"random_values">> ELSE <<>>)
  \o <<"all_variables">>

\* C8 as claimed (Spec).  A run that raises no uncaught error has run the
\* phases in the fixed order: dimension listing, group diff and walk once,
\* the in-group diff iff a group is given, the sample print and the
\* random-sample comparison iff a group and a variable are given; it
\* returns 0.
C8_PhaseOrder ==
  pc = "done" =>
    /\ phases = PhaseOrder(GroupGiven /\ VariableGiven)
    /\ ret = <<PyInt(0)>>

\* C8 amended (Spec).  As claimed, except that the random-sample comparison
\* runs iff a group and a variable are given and the sample print raised no
\* KeyError (a variable that one file lacks ends the try block in the sample
\* print); nothing is returned before the walk is done.
C8_PhaseOrderUnlessKeyError ==
  /\ pc = "done" =>
       /\ phases = PhaseOrder(GroupGiven /\ VariableGiven /\ exc # "KeyError")
       /\ ret = <<PyInt(0)>>
  /\ pc # "done" => ret = <<>>
  /\ \E n \in 0..Len(PhaseOrder(TRUE)) : phases = SubSeq(PhaseOrder(TRUE), 1, n)
       \/ phases = SubSeq(PhaseOrder(FALSE), 1, n)

\* C8 witness: a group and a variable are given, the sample print raised the
\* KeyError, the random-sample comparison did not run, the groups differ, and
\* the run returned 0
C8_Witness ==
  /\ pc = "done"
  /\ GroupGiven /\ VariableGiven
  /\ exc = "KeyError"
  /\ phases = <<"dimensions", "groups", "ingroup_variables", "sample_values",
                "all_variables">>
  /\ nc_a.variables # nc_b.variables
  /\ ret = <<PyInt(0)>>

\* The exact value of a sampled number, in units of 5e-7
Exact(v, dtype) == IF dtype = "int8" THEN v.v * units_per_one ELSE v.v
Distance(x, y) == IF x < y THEN y - x ELSE x - y
LastDraw == loop.last[1]

\* C6 as claimed (SpecSample).  A draw is a mismatch iff neither value is NaN
\* and |vB - vA| > t.
C6_MismatchDecision ==
  loop.last # <<>> /\ ~LastDraw.raised =>
    LET v1 == ValueAt(nc_a.var, LastDraw.rand_index)
        v2 == ValueAt(nc_b.var, LastDraw.rand_index)
    IN  ~LastDraw.matched <=>
          /\ ~v1.nan
          /\ ~v2.nan
          /\ Distance(Exact(v2, values_dtype(nc_b.var)),
                      Exact(v1, values_dtype(nc_a.var))) > thresh

\* C7 as claimed (SpecSample).  compare_multiple_random_values returns the
\* mismatch count to its caller.
C7_ReturnsCount ==
  loop.returned # <<>> => loop.returned = <<PyInt(loop.num_mismatches)>>

\* C7 amended (SpecSample).  For two variables of the same shape
\* compare_multiple_random_values raises nothing and makes exactly
\* num_comparisons draws.  For any two variables each index drawn is within
\* [0, size_d - 1] for every dimension d of nc_var_a's shape; it prints one
\* progress marker per matching draw and none for a mismatch, so markers +
\* mismatches is the number of draws; when it returns it has made
\* num_comparisons draws, has printed "No mismatches" iff the count is zero
\* and the count otherwise, and returns None.  Only variables of different
\* shapes can end it early, before the summary and with fewer draws: with
\* IndexError when the index drawn from nc_var_a's shape is outside
\* nc_var_b's shape or has more entries than nc_var_b has dimensions, with
\* ValueError when nc_var_b has more dimensions than nc_var_a.
C7_SampleTally ==
  /\ loop.markers + loop.num_mismatches = loop.i
  /\ loop.i <= num_comparisons
  /\ loop.last # <<>> =>
       /\ Len(LastDraw.rand_index) = Len(nc_a.var.shape)
       /\ \A d \in 1..Len(nc_a.var.shape) :
            /\ LastDraw.rand_index[d] >= 0
            /\ LastDraw.rand_index[d] <= nc_a.var.shape[d] - 1
  /\ pc = "random_loop" /\ loop.last # <<>> =>
       IF LastDraw.matched
       THEN out = <<print_normal(<<".">>)>>
       ELSE \A i \in 1..Len(out) : out[i] # print_normal(<<".">>)
  /\ nc_a.var.shape = nc_b.var.shape => pc # "raised"
  /\ pc = "raised" =>
       /\ loop.i < num_comparisons
       /\ loop.returned = <<>>
       /\ nc_a.var.shape # nc_b.var.shape
       /\ exc \in {"IndexError", "ValueError"}
       /\ exc = "IndexError" <=> ~InBounds(nc_b.var.shape, LastDraw.rand_index)
       /\ exc = "ValueError" => Len(nc_b.var.shape) > Len(nc_a.var.shape)
  /\ loop.returned # <<>> =>
       /\ loop.i = num_comparisons
       /\ loop.markers + loop.num_mismatches = num_comparisons
       /\ out[1] = Fore.CYAN \o <<" No mismatches.">> <=> loop.num_mismatches = 0
       /\ loop.num_mismatches > 0 =>
            out[1] = Fore.RED \o <<" ">> \o StrInt(loop.num_mismatches)
                     \o <<" mismatches, out of ">> \o StrInt(num_comparisons)
                     \o <<" samples.">>
       /\ loop.returned = <<None>>

\* C7 witness: the comparison of two variables of the same shape is over,
\* with matching and mismatching draws
C7_Witness ==
  /\ loop.returned = <<None>>
  /\ nc_a.var.shape = nc_b.var.shape
  /\ loop.num_mismatches > 0
  /\ loop.markers > 0
  /\ loop.i = num_comparisons

VarsOf(ds, g) == IF g \in DOMAIN ds.groups THEN ds.groups[g] ELSE {}
AllGroups == DOMAIN nc_a.groups \cup DOMAIN nc_b.groups
GroupVarRows(g) == Cardinality(VarsOf(nc_a, g) \cup VarsOf(nc_b, g))
RECURSIVE SumGroupVarRows(_)
SumGroupVarRows(S) ==
  IF S = {} THEN 0
  ELSE LET g == CHOOSE y \in S : TRUE IN GroupVarRows(g) + SumGroupVarRows(S \ {g})
\* The aligned variable rows of the walk
VarRows == Cardinality(nc_a.variables \cup nc_b.variables) + SumGroupVarRows(AllGroups)
Side(l) == IF l.side = "a" THEN nc_a ELSE nc_b

\* C9 (SpecWalk).  In compare_two_nc_files every _var_properties call has an
\* empty variable name, and then returns no variable and empty dtype, shape
\* and chunking, or a name that exists in that side's dataset, in the group
\* it is looked up in; the walk raises no lookup error and prints 5 rows for
\* every aligned variable row.
C9_WalkLookupsExist ==
  /\ pc # "raised"
  /\ pc = "finish" =>
       /\ \A i \in 1..Len(lookups) :
            LET l == lookups[i]
            IN  /\ ~l.result.raised
                /\ l.varname = <<>> =>
                     /\ l.result.the_variable = None
                     /\ l.result.v_dtype = <<>>
                     /\ l.result.v_shape = <<>>
                     /\ l.result.v_chunking = <<>>
                /\ l.varname # <<>> =>
                     /\ l.result.the_variable = Side(l).var
                     /\ IF l.groupname = None
                        THEN l.varname \in Side(l).variables
                        ELSE /\ l.groupname.value \in DOMAIN Side(l).groups
                             /\ l.varname \in Side(l).groups[l.groupname.value]
       /\ Len(lookups) = 2 * VarRows
       /\ Len(out) = 4 + 2 * Cardinality(AllGroups) + 5 * VarRows

\* C9 witness: the walk is over two files where a group is only in A, a
\* group of both has a variable only in B, and a root variable is only in A
C9_Witness ==
  /\ pc = "finish"
  /\ DOMAIN nc_a.groups = {G1, G2}
  /\ DOMAIN nc_b.groups = {G1}
  /\ nc_a.groups[G2] # {}
  /\ nc_b.groups[G1] \ nc_a.groups[G1] # {}
  /\ nc_a.variables \ nc_b.variables # {}
  /\ \E i \in 1..Len(lookups) : lookups[i].varname = <<>>
  /\ \E i \in 1..Len(lookups) : lookups[i].varname # <<>> /\ lookups[i].groupname # None

\* C10 as claimed (SpecCalls).  Whether the foreground codes of a call are
\* active depends on that call's own no_color flag only.
C10_ColorPerCall ==
  pc # "call" => \A k \in DOMAIN Fore : Fore[k] = <<>> <=> args.no_color

====
